---- MODULE Spec2Model ----
(***************************************************************************)
(* Model of multiWeatherProvider.temperature (src/main.go:173-202): the    *)
(* fan-out of one goroutine per weather provider and the fan-in loop that  *)
(* selects over the temps channel, the errs channel and a fresh            *)
(* time.After timer on each of its len(w) iterations.                      *)
(*                                                                         *)
(* Time is discrete.  A Tick is TickMs milliseconds of wall-clock time; it  *)
(* passes only when no select has a ready case and no send can proceed,    *)
(* so a goroutine that can run does so within the instant.  Two events of  *)
(* the same instant (a timer firing and a send) are ordered either way,    *)
(* and a select with several ready cases picks any of them.                *)
(*                                                                         *)
(* float64 is modelled as a binary floating-point format with PrecBits     *)
(* bits of mantissa and round-to-nearest-even, over nonnegative values.    *)
(***************************************************************************)
EXTENDS Naturals, Sequences, FiniteSets

\* ------------------------------------------------------------------ bounds
MaxAdapters == 3       \* largest len(w) of the single-call specification
MaxConcAdapters == 1   \* largest len(w) when two calls run concurrently
MaxLiveAdapters == 2   \* largest len(w) of the specification with fairness
Resolution == 2        \* Ticks per timeout period
PrecBits == 3          \* mantissa bits of the modelled float64

\* --------------------------------------------------------------- constants
TimeoutMs == 1500      \* time.Millisecond * 1500

TickMs == TimeoutMs \div Resolution                 \* milliseconds of one Tick
Deadline == (TimeoutMs + TickMs - 1) \div TickMs   \* Ticks until a timer fires

Calls == {1, 2}
Cities == {"A", "B"}
Nil == <<"nil", 0, "">>                      \* the nil error
None == "none"                               \* city of a call not yet made
Unasked == [k |-> 0, err |-> <<"unasked", 0, "">>]      \* reply of a provider not yet asked

\* ------------------------------------------------------------------ float64
RECURSIVE Pow2(_)
Pow2(k) == IF k = 0 THEN 1 ELSE 2 * Pow2(k - 1)

\* exponent of x: the least e with x < 2^(PrecBits+e)
RECURSIVE Exponent(_)
Exponent(x) == IF x < Pow2(PrecBits) THEN 0 ELSE 1 + Exponent(x \div 2)

\* the representable value nearest to the natural number x, ties to even
RoundF(x) ==
    LET q == Pow2(Exponent(x))
        m == x \div q
        r == x % q
    IN  IF 2 * r > q \/ (2 * r = q /\ m % 2 = 1) THEN (m + 1) * q ELSE m * q

\* a bug: sum = temp
FAssign(a, b) == b

\* sum += temp
FAdd(a, b) == RoundF(a + b)

RECURSIVE Gcd(_, _)
Gcd(a, b) == IF b = 0 THEN a ELSE Gcd(b, a % b)

\* sum / float64(len(w)): the quotient as a fraction in lowest terms
FDiv(s, n) == LET g == Gcd(s, n) IN <<s \div g, n \div g>>

Zero == <<0, 1>>       \* the literal 0 of "return 0, err"
Pending == [temp |-> Zero, err |-> <<"pending", 0, "">>]   \* result of a call that has not returned

\* ----------------------------------------------------------------- adapters
\* Temperatures a provider may report for a city, and its error there.
TempsOf(c) == IF c = "A" THEN {1, Pow2(PrecBits)} ELSE {3}
ErrOf(a, c) == <<"err", a, c>>
RepliesOf(a, c) == [k : TempsOf(c), err : {Nil}] \cup {[k |-> 0, err |-> ErrOf(a, c)]}

VARIABLES
    w,        \* len(w): the providers are 1..w
    calls,    \* the calls of temperature that may be made
    reply,    \* reply[a][city]: what provider a returns for city (Unasked before its first call)
    city,     \* city[c]: argument of call c
    pc,       \* pc[c]: "idle", "select" (in the loop, at the select) or "done"
    i,        \* i[c]: loop counter
    sum,      \* sum[c]
    timer,    \* timer[c]: Ticks since the time.After of the current select
    logged,   \* logged[c]: number of "timed out" lines logged
    result,   \* result[c]: the returned (float64, error), Pending before the return
    temps,    \* temps[c]: contents of the temps channel
    errs,     \* errs[c]: contents of the errs channel
    task,     \* task[c][a]: position of the goroutine for provider a
    elapsed,  \* elapsed[c]: Ticks call c has taken since it began (time.Since(begin))
    late      \* late[c][a]: provider a returned more than Deadline Ticks into call c

vars == <<w, calls, reply, city, pc, i, sum, timer, logged, result, temps, errs,
          task, elapsed, late>>

Adapters == 1..w
ElapsedCap == w * Deadline + 1   \* where the model stops counting elapsed

Min(a, b) == IF a < b THEN a ELSE b

\* a bug: channels one slot short, make(chan ..., len(w)-1)
CapShort == w - 1

\* cap(temps), cap(errs): make(chan ..., len(w))
Cap == w

\* a bug: the channels are package-level variables, shared by all calls
ChanShared(c) == 1

\* the channels call c uses: made anew in each call, so its own
ChanOf(c) == c

\* a bug: sum is a package-level variable that the call does not reset
SumNotReset(c) == sum[3 - c]

\* sum := 0.0
InitialSum(c) == 0

\* a bug: dividing by the number of temperatures received (1 if there are none)
DivisorReceived(c) == IF i'[c] = logged'[c] THEN 1 ELSE i'[c] - logged'[c]

\* float64(len(w)), the divisor of the returned average
Divisor(c) == w

\* a bug: one timer for the whole loop, made before it
TimerKept(c) == timer[c]

\* time.After(...) in the select: a new timer on every iteration
NewTimer(c) == 0

InitWith(cs, maxw) ==
    /\ w \in 1..maxw
    /\ calls = cs
    /\ reply = [a \in 1..MaxAdapters + MaxConcAdapters |-> [c \in Cities |-> Unasked]]
    /\ city = [c \in Calls |-> None]
    /\ pc = [c \in Calls |-> "idle"]
    /\ i = [c \in Calls |-> 0]
    /\ sum = [c \in Calls |-> 0]
    /\ timer = [c \in Calls |-> 0]
    /\ logged = [c \in Calls |-> 0]
    /\ result = [c \in Calls |-> Pending]
    /\ temps = [c \in Calls |-> <<>>]
    /\ errs = [c \in Calls |-> <<>>]
    /\ task = [c \in Calls |-> [a \in 1..MaxAdapters + MaxConcAdapters |-> "idle"]]
    /\ elapsed = [c \in Calls |-> 0]
    /\ late = [c \in Calls |-> [a \in 1..MaxAdapters + MaxConcAdapters |-> FALSE]]

Init == InitWith({1}, MaxAdapters)
InitConc == InitWith(Calls, MaxConcAdapters)
InitLive == InitWith({1}, MaxLiveAdapters)

\* temperature(city): make the channels, start one goroutine per provider,
\* sum := 0, enter the loop and reach the first select (len(w) >= 1).
\* The calls are numbered in the order in which they are made.
Call(c, ct) ==
    /\ c \in calls
    /\ pc[c] = "idle"
    /\ \A d \in calls : d < c => pc[d] # "idle"
    /\ city' = [city EXCEPT ![c] = ct]
    /\ temps' = [temps EXCEPT ![c] = <<>>]
    /\ errs' = [errs EXCEPT ![c] = <<>>]
    /\ task' = [task EXCEPT ![c] = [a \in DOMAIN task[c] |-> IF a \in Adapters THEN "calling" ELSE "idle"]]
    /\ sum' = [sum EXCEPT ![c] = InitialSum(c)]
    /\ i' = [i EXCEPT ![c] = 0]
    /\ timer' = [timer EXCEPT ![c] = NewTimer(c)]
    /\ pc' = [pc EXCEPT ![c] = "select"]
    /\ UNCHANGED <<w, calls, reply, logged, result, elapsed, late>>

\* k, err := p.temperature(city) returns in the goroutine of provider a.
TaskReturn(c, a) ==
    /\ task[c][a] = "calling"
    /\ \E r \in RepliesOf(a, city[c]) :
          /\ reply[a][city[c]] \in {Unasked, r}
          /\ reply' = [reply EXCEPT ![a][city[c]] = r]
          /\ task' = [task EXCEPT ![c][a] = IF r.err # Nil THEN "sendErr" ELSE "sendTemp"]
    /\ late' = [late EXCEPT ![c][a] = elapsed[c] > Deadline]
    /\ UNCHANGED <<w, calls, city, pc, i, sum, timer, logged, result, temps, errs, elapsed>>

CanSendErr(c, a) == task[c][a] = "sendErr" /\ Len(errs[ChanOf(c)]) < Cap
CanSendTemp(c, a) == task[c][a] = "sendTemp" /\ Len(temps[ChanOf(c)]) < Cap

\* a bug: no return after errs <- err, so that temps <- k follows
SendErrFallsThrough(c, a) ==
    /\ CanSendErr(c, a)
    /\ errs' = [errs EXCEPT ![ChanOf(c)] = Append(@, reply[a][city[c]].err)]
    /\ temps' = [temps EXCEPT ![ChanOf(c)] = Append(@, reply[a][city[c]].k)]
    /\ task' = [task EXCEPT ![c][a] = "done"]
    /\ UNCHANGED <<w, calls, reply, city, pc, i, sum, timer, logged, result, elapsed, late>>

\* errs <- err; return
SendErr(c, a) ==
    /\ CanSendErr(c, a)
    /\ errs' = [errs EXCEPT ![ChanOf(c)] = Append(@, reply[a][city[c]].err)]
    /\ task' = [task EXCEPT ![c][a] = "done"]
    /\ UNCHANGED <<w, calls, reply, city, pc, i, sum, timer, logged, result, temps, elapsed, late>>

\* temps <- k
SendTemp(c, a) ==
    /\ CanSendTemp(c, a)
    /\ temps' = [temps EXCEPT ![ChanOf(c)] = Append(@, reply[a][city[c]].k)]
    /\ task' = [task EXCEPT ![c][a] = "done"]
    /\ UNCHANGED <<w, calls, reply, city, pc, i, sum, timer, logged, result, errs, elapsed, late>>

\* a bug: the loop stops one iteration early
NextAttemptShort(c, s) ==
    /\ i' = [i EXCEPT ![c] = @ + 1]
    /\ sum' = [sum EXCEPT ![c] = s]
    /\ IF i[c] + 2 < w
       THEN /\ timer' = [timer EXCEPT ![c] = NewTimer(c)]
            /\ UNCHANGED <<pc, result>>
       ELSE /\ pc' = [pc EXCEPT ![c] = "done"]
            /\ result' = [result EXCEPT ![c] = [temp |-> FDiv(s, Divisor(c)), err |-> Nil]]
            /\ UNCHANGED timer

\* i++ at the end of an iteration whose sum is s: the next select with a new
\* timer, or the return of sum / float64(len(w)), nil after the last one.
NextAttempt(c, s) ==
    /\ i' = [i EXCEPT ![c] = @ + 1]
    /\ sum' = [sum EXCEPT ![c] = s]
    /\ IF i[c] + 1 < w
       THEN /\ timer' = [timer EXCEPT ![c] = NewTimer(c)]
            /\ UNCHANGED <<pc, result>>
       ELSE /\ pc' = [pc EXCEPT ![c] = "done"]
            /\ result' = [result EXCEPT ![c] = [temp |-> FDiv(s, Divisor(c)), err |-> Nil]]
            /\ UNCHANGED timer

\* a bug: the temperature added stays in the channel and is added again
RecvTempKept(c) ==
    /\ pc[c] = "select"
    /\ temps[ChanOf(c)] # <<>>
    /\ UNCHANGED <<w, calls, reply, city, logged, temps, errs, task, elapsed, late>>
    /\ NextAttempt(c, FAdd(sum[c], Head(temps[ChanOf(c)])))

\* case temp := <-temps: sum += temp
RecvTemp(c) ==
    /\ pc[c] = "select"
    /\ temps[ChanOf(c)] # <<>>
    /\ temps' = [temps EXCEPT ![ChanOf(c)] = Tail(@)]
    /\ UNCHANGED <<w, calls, reply, city, logged, errs, task, elapsed, late>>
    /\ NextAttempt(c, FAdd(sum[c], Head(temps[ChanOf(c)])))

\* a bug: a received error is dropped and the loop goes on
RecvErrSkipped(c) ==
    /\ pc[c] = "select"
    /\ errs[ChanOf(c)] # <<>>
    /\ errs' = [errs EXCEPT ![ChanOf(c)] = Tail(@)]
    /\ UNCHANGED <<w, calls, reply, city, logged, temps, task, elapsed, late>>
    /\ NextAttempt(c, sum[c])

\* a bug: "return sum / float64(len(w)), nil" in the errs case
ErrDropped(c, e) == [temp |-> FDiv(sum[c], w), err |-> Nil]

\* return 0, err
ErrResult(c, e) == [temp |-> Zero, err |-> e]

\* a bug: the error taken is the one published last
RecvErrLast(c) ==
    /\ pc[c] = "select"
    /\ errs[ChanOf(c)] # <<>>
    /\ errs' = [errs EXCEPT ![ChanOf(c)] = SubSeq(@, 1, Len(@) - 1)]
    /\ result' = [result EXCEPT ![c] = ErrResult(c, errs[ChanOf(c)][Len(errs[ChanOf(c)])])]
    /\ pc' = [pc EXCEPT ![c] = "done"]
    /\ UNCHANGED <<w, calls, reply, city, i, sum, timer, logged, temps, task, elapsed, late>>

\* case err := <-errs: return 0, err
RecvErr(c) ==
    /\ pc[c] = "select"
    /\ errs[ChanOf(c)] # <<>>
    /\ errs' = [errs EXCEPT ![ChanOf(c)] = Tail(@)]
    /\ result' = [result EXCEPT ![c] = ErrResult(c, Head(errs[ChanOf(c)]))]
    /\ pc' = [pc EXCEPT ![c] = "done"]
    /\ UNCHANGED <<w, calls, reply, city, i, sum, timer, logged, temps, task, elapsed, late>>

\* a bug: a select without the time.After case
TimerNever(c) == FALSE

\* the channel of time.After(time.Millisecond * 1500) is ready
TimerFired(c) == timer[c] >= Deadline

ErrTimeout == <<"timeout", 0, "">>
ErrNoData == <<"nodata", 0, "">>

\* a bug: a timeout aborts the call with an error
TimedOutAborts(c) ==
    /\ pc[c] = "select"
    /\ TimerFired(c)
    /\ logged' = [logged EXCEPT ![c] = @ + 1]
    /\ result' = [result EXCEPT ![c] = [temp |-> Zero, err |-> ErrTimeout]]
    /\ pc' = [pc EXCEPT ![c] = "done"]
    /\ UNCHANGED <<w, calls, reply, city, i, sum, timer, temps, errs, task, elapsed, late>>

\* a bug: when the last attempt times out with nothing summed, an error is returned
TimedOutNoData(c) ==
    /\ pc[c] = "select"
    /\ TimerFired(c)
    /\ logged' = [logged EXCEPT ![c] = @ + 1]
    /\ IF i[c] + 1 = w /\ sum[c] = 0
       THEN /\ result' = [result EXCEPT ![c] = [temp |-> Zero, err |-> ErrNoData]]
            /\ pc' = [pc EXCEPT ![c] = "done"]
            /\ UNCHANGED <<i, sum, timer>>
       ELSE NextAttempt(c, sum[c])
    /\ UNCHANGED <<w, calls, reply, city, temps, errs, task, elapsed, late>>

\* a bug: an attempt that timed out is tried again and not counted
TimedOutRetry(c) ==
    /\ pc[c] = "select"
    /\ TimerFired(c)
    /\ logged' = [logged EXCEPT ![c] = @ + 1]
    /\ timer' = [timer EXCEPT ![c] = NewTimer(c)]
    /\ UNCHANGED <<w, calls, reply, city, pc, i, sum, result, temps, errs, task, elapsed, late>>

\* case <-time.After(...): log.Printf("%s timed out", w)
TimedOut(c) ==
    /\ pc[c] = "select"
    /\ TimerFired(c)
    /\ logged' = [logged EXCEPT ![c] = @ + 1]
    /\ NextAttempt(c, sum[c])
    /\ UNCHANGED <<w, calls, reply, city, temps, errs, task, elapsed, late>>

\* some case of the select of call c is ready
SelectReady(c) ==
    pc[c] = "select" /\ (temps[ChanOf(c)] # <<>> \/ errs[ChanOf(c)] # <<>> \/ TimerFired(c))

\* Time passes: only when no goroutine can take a step.
Tick ==
    /\ \A c \in calls : ~SelectReady(c)
    /\ \A c \in calls : \A a \in Adapters : ~CanSendErr(c, a) /\ ~CanSendTemp(c, a)
    /\ timer' = [c \in Calls |-> IF pc[c] = "select" THEN Min(timer[c] + 1, Deadline) ELSE timer[c]]
    /\ elapsed' = [c \in Calls |-> IF pc[c] = "select"
                                   THEN Min(elapsed[c] + 1, ElapsedCap) ELSE elapsed[c]]
    /\ UNCHANGED <<w, calls, reply, city, pc, i, sum, logged, result, temps, errs, task, late>>

Next ==
    \/ \E c \in Calls, ct \in Cities : Call(c, ct)
    \/ \E c \in Calls, a \in Adapters : TaskReturn(c, a)
    \/ \E c \in Calls, a \in Adapters : SendErr(c, a)
    \/ \E c \in Calls, a \in Adapters : SendTemp(c, a)
    \/ \E c \in Calls : RecvTemp(c)
    \/ \E c \in Calls : RecvErr(c)
    \/ \E c \in Calls : TimedOut(c)
    \/ Tick

Spec == Init /\ [][Next]_vars
SpecConc == InitConc /\ [][Next]_vars

\* Scheduling: while some select has a ready case one of them is taken, while
\* some send has room one of them proceeds, and time passes.  Nothing makes a
\* provider answer.
AllAdapters == 1..(MaxAdapters + MaxConcAdapters)
SelectStep == \E c \in Calls : RecvTemp(c) \/ RecvErr(c) \/ TimedOut(c)
SendStep == \E c \in Calls : \E a \in AllAdapters : SendErr(c, a) \/ SendTemp(c, a)
Fairness == WF_vars(Tick) /\ WF_vars(SelectStep) /\ WF_vars(SendStep)
LiveSpec == InitLive /\ [][Next]_vars /\ Fairness

\* =================================================================== claims
Published(c, a) == task[c][a] = "done"
Returned(c, a) == task[c][a] \in {"sendErr", "sendTemp", "done"}
Val(c, a) == reply[a][city[c]].k
ErrVal(c, a) == reply[a][city[c]].err
\* provider a has answered call c with a temperature / with an error
Succeeds(c, a) == Returned(c, a) /\ ErrVal(c, a) = Nil
Fails(c, a) == Returned(c, a) /\ ErrVal(c, a) # Nil
Done(c) == pc[c] = "done"
Ok(c) == Done(c) /\ result[c].err = Nil

\* the float64 sums that adding the temperatures of the providers S to 0, in
\* some order, can give
RECURSIVE Sums(_, _)
Sums(c, S) == IF S = {} THEN {0}
              ELSE UNION {{RoundF(x + Val(c, a)) : x \in Sums(c, S \ {a})} : a \in S}
Averages(c, S) == {FDiv(x, w) : x \in Sums(c, S)}

\* C1 as stated: whenever all N providers of a call answer with temperatures,
\* however long they take, the call returns their average.
C1_Original ==
    \A c \in Calls : (Done(c) /\ \A a \in Adapters : Succeeds(c, a))
        => result[c].err = Nil /\ result[c].temp \in Averages(c, Adapters)

\* C1 amended: when all N providers answer with temperatures and no attempt of
\* the loop times out, the call returns nil and the temperatures, added in the
\* order they were received, divided by N.
C1_Average ==
    \A c \in Calls : (Done(c) /\ logged[c] = 0 /\ \A a \in Adapters : Succeeds(c, a))
        => result[c].err = Nil /\ result[c].temp \in Averages(c, Adapters)

C1_Witness ==
    /\ Done(1) /\ logged[1] = 0 /\ w = MaxAdapters
    /\ \A a \in Adapters : Succeeds(1, a)
    /\ \E a, b \in Adapters : Val(1, a) # Val(1, b)

\* the step in which call c returns
Returns(c) == pc[c] = "select" /\ pc'[c] = "done"
\* the errors published to errs by the providers of call c
PublishedErrs(c) == {ErrVal(c, a) : a \in {b \in Adapters : Published(c, b) /\ Fails(c, b)}}

\* C2 as stated: when call c returns, its result is the error of every provider
\* that has published a failure by then.
C2_Original ==
    [][\A c \in Calls : Returns(c) =>
          \A e \in PublishedErrs(c) : result'[c].err = e]_vars

\* C2 amended: when a call returns after a provider has published a failure, it
\* returns 0 and the error of a provider that published one, or else a numeric
\* result after at least one attempt has timed out.
C2_FailureOrTimeout ==
    [][\A c \in Calls : (Returns(c) /\ PublishedErrs(c) # {}) =>
          \/ result'[c].err \in PublishedErrs(c) /\ result'[c].temp = Zero
          \/ result'[c].err = Nil /\ logged'[c] >= 1]_vars

C2_Witness ==
    /\ Done(1) /\ result[1].err \in PublishedErrs(1)
    /\ logged[1] >= 1 /\ i[1] > logged[1]

\* C3: a call none of whose attempts timed out, and one of whose providers has
\* failed, returns 0 and the error of a failing provider.
C3_ErrorWithoutTimeout ==
    \A c \in Calls : (Done(c) /\ logged[c] = 0 /\ \E a \in Adapters : Fails(c, a))
        => /\ result[c].temp = Zero
           /\ \E a \in Adapters : Fails(c, a) /\ result[c].err = ErrVal(c, a)

C3_Witness ==
    /\ Done(1) /\ logged[1] = 0 /\ i[1] >= 1
    /\ \A a \in Adapters : Published(1, a)
    /\ result[1].err \in PublishedErrs(1)

\* provider a took longer than the deadline to answer call c
Slow(c, a) == late[c][a] \/ (task[c][a] = "calling" /\ elapsed[c] > Deadline)

\* C4 as stated: when exactly one provider takes longer than the deadline and
\* the others answer with temperatures, the call returns the sum of the others
\* divided by N.
C4_Original ==
    \A c \in Calls : \A s \in Adapters :
        (/\ Done(c) /\ Slow(c, s)
         /\ \A a \in Adapters \ {s} : Succeeds(c, a) /\ ~late[c][a])
        => result[c].err = Nil /\ result[c].temp \in Averages(c, Adapters \ {s})

\* C4 amended: a call that returns nil after exactly one attempt timed out
\* returns the temperatures of N-1 providers, added in the order received,
\* divided by N.
C4_OneTimeout ==
    \A c \in Calls : (Ok(c) /\ logged[c] = 1)
        => \E s \in Adapters :
              /\ \A a \in Adapters \ {s} : Succeeds(c, a)
              /\ result[c].temp \in Averages(c, Adapters \ {s})

C4_Witness ==
    /\ Ok(1) /\ logged[1] = 1 /\ w = MaxAdapters
    /\ \E s \in Adapters : task[1][s] = "calling" /\ Slow(1, s)

\* C5: every call that has been made returns, and a call that has returned has
\* either the error nil and a quotient, or an error and the number 0.
C5_Returned ==
    \A c \in Calls : Done(c) =>
        /\ result[c] # Pending
        /\ result[c].err # Nil => result[c].temp = Zero
C5_Terminates ==
    /\ \A c \in Calls : (pc[c] = "select") ~> Done(c)
    /\ [](C5_Returned)

C5_Witness ==
    /\ Done(1) /\ logged[1] = w /\ w = MaxLiveAdapters
    /\ \A a \in Adapters : task[1][a] = "calling"

\* C6: a call returns an error only if one of its providers has published a failure.
C6_TimeoutsNotFatal ==
    \A c \in Calls : (Done(c) /\ PublishedErrs(c) = {}) => result[c].err = Nil

C6_Witness == Ok(1) /\ logged[1] >= 2 /\ PublishedErrs(1) = {} /\ sum[1] > 0

\* C7: a call all of whose N attempts timed out returns 0 and nil.
C7_AllTimedOut ==
    \A c \in Calls : (Done(c) /\ logged[c] = w) => result[c] = [temp |-> Zero, err |-> Nil]

C7_Witness == Done(1) /\ logged[1] = w /\ w = MaxAdapters

\* the sets of k providers that have answered call c with a temperature
Received(c, k) == {S \in SUBSET {a \in Adapters : Succeeds(c, a)} : Cardinality(S) = k}

\* C8: with two calls in progress, each call's channels hold only what its own
\* goroutines sent for its own city, and its sum and result are made of the
\* answers its own providers gave for its city, as when it runs alone.
C8_NoInterference ==
    \A c \in Calls :
        /\ \A k \in 1..Len(temps[c]) : temps[c][k] \in TempsOf(city[c])
        /\ \A k \in 1..Len(errs[c]) : errs[c][k] \in PublishedErrs(c)
        /\ Len(temps[c]) + Len(errs[c]) <= Cardinality({a \in Adapters : Published(c, a)})
        /\ pc[c] = "select" => \E S \in Received(c, i[c] - logged[c]) : sum[c] \in Sums(c, S)
        /\ Ok(c) => \E S \in Received(c, w - logged[c]) : result[c].temp \in Averages(c, S)
        /\ (Done(c) /\ ~Ok(c)) => result[c].err \in PublishedErrs(c) /\ result[c].temp = Zero

C8_Witness ==
    /\ pc[1] = "select" /\ pc[2] = "select" /\ city[1] # city[2]
    /\ temps[1] # <<>> /\ temps[2] # <<>>

C10_NeverBlocked ==
    \A c \in Calls : \A a \in Adapters :
        /\ task[c][a] = "sendErr" => CanSendErr(c, a)
        /\ task[c][a] = "sendTemp" => CanSendTemp(c, a)

IsPrefix(s, t) == Len(s) <= Len(t) /\ SubSeq(t, 1, Len(s)) = s

C10_AfterReturn ==
    \A c \in Calls : Done(c) =>
        /\ IsPrefix(temps[c], temps'[c]) /\ IsPrefix(errs[c], errs'[c])
        /\ \A a \in Adapters :
              \/ task'[c][a] = task[c][a]
              \/ task[c][a] = "calling" /\ task'[c][a] \in {"sendErr", "sendTemp"}
              \/ task[c][a] \in {"sendErr", "sendTemp"} /\ task'[c][a] = "done"

C10_ProducersNeverBlock == [](C10_NeverBlocked) /\ [][C10_AfterReturn]_vars

C10_Witness ==
    /\ Done(1) /\ result[1].err # Nil /\ w = MaxAdapters
    /\ \A a \in Adapters : Published(1, a)
    /\ Len(temps[1]) + Len(errs[1]) = w - 1

\* the providers whose temperature / error call c's goroutines have published
PublishedOk(c) == {a \in Adapters : Published(c, a) /\ Succeeds(c, a)}
PublishedErr(c) == {a \in Adapters : Published(c, a) /\ Fails(c, a)}
\* the number of temperatures / errors call c has received
ReceivedTemps(c) == i[c] - logged[c]
ReceivedErrs(c) == IF Done(c) /\ ~Ok(c) THEN 1 ELSE 0

\* C11: in a call every provider is asked once and its goroutine publishes one
\* outcome, a temperature to temps or an error to errs and never both: what the
\* channels hold and what was received from them are as many temperatures as
\* providers have published one, as many errors as providers have published
\* one, and at most N in all; a goroutine that has its answer never asks again.
C11_Counts ==
    \A c \in Calls :
        /\ pc[c] # "idle" => \A a \in Adapters : task[c][a] # "idle"
        /\ Len(temps[c]) + ReceivedTemps(c) = Cardinality(PublishedOk(c))
        /\ Len(errs[c]) + ReceivedErrs(c) = Cardinality(PublishedErr(c))
        /\ Cardinality(PublishedOk(c)) + Cardinality(PublishedErr(c)) <= w

C11_NoRetry ==
    \A c \in Calls : \A a \in Adapters :
        /\ Returned(c, a) => Returned(c, a)' /\ ErrVal(c, a)' = ErrVal(c, a) /\ Val(c, a)' = Val(c, a)
        /\ Published(c, a) => Published(c, a)'
        /\ task[c][a] = "calling" => task'[c][a] # "idle"

C11_OneOutcomeEach == [](C11_Counts) /\ [][C11_NoRetry]_vars

C11_Witness ==
    /\ w = MaxAdapters /\ \A a \in Adapters : Published(1, a)
    /\ PublishedOk(1) # {} /\ PublishedErr(1) # {}
    /\ Len(temps[1]) + Len(errs[1]) = w - 1

\* C12: the step in which a call receives an error is its return: the result is
\* 0 and that error, which is the head of errs with every error published so far
\* still behind it, so the first one published; no attempt is counted, no time
\* passes and the sum is not returned.  After the return the call takes nothing.
C12_ReceivesErr(c) == pc[c] = "select" /\ Len(errs'[c]) < Len(errs[c])
C12_Step ==
    \A c \in Calls :
        /\ C12_ReceivesErr(c) =>
              /\ Len(errs[c]) = Cardinality(PublishedErr(c))
              /\ Head(errs[c]) \in PublishedErrs(c)
              /\ pc'[c] = "done"
              /\ result'[c] = [temp |-> Zero, err |-> Head(errs[c])]
              /\ i'[c] = i[c] /\ logged'[c] = logged[c] /\ elapsed'[c] = elapsed[c]
        /\ Done(c) =>
              /\ result'[c] = result[c] /\ i'[c] = i[c] /\ logged'[c] = logged[c]
              /\ Len(errs'[c]) >= Len(errs[c]) /\ Len(temps'[c]) >= Len(temps[c])
C12_FirstErrorWins == [][C12_Step]_vars

C12_Witness ==
    /\ Done(1) /\ ~Ok(1) /\ sum[1] > 0 /\ result[1].temp = Zero
    /\ errs[1] # <<>> /\ result[1].err \notin {errs[1][k] : k \in 1..Len(errs[1])}

\* what the loop of call c has taken out of temps and out of errs
ConsumedOk(c) == Cardinality(PublishedOk(c)) - Len(temps[c])
ConsumedErr(c) == Cardinality(PublishedErr(c)) - Len(errs[c])
\* attempts of call c that have ended: in a success, in a failure, in a timeout
AttemptsDone(c) == ConsumedOk(c) + ConsumedErr(c) + logged[c]

\* C13: the loop makes at most N attempts; while it runs, i attempts have ended,
\* none in a failure; a successful return comes after exactly N attempts, none
\* of which consumed a failure; a failed return comes after k <= N attempts of
\* which only the last consumed a failure.
C13_Bounded ==
    \A c \in Calls :
        /\ AttemptsDone(c) <= w /\ ConsumedErr(c) \in {0, 1}
        /\ pc[c] = "select" => ConsumedErr(c) = 0 /\ AttemptsDone(c) = i[c] /\ i[c] < w
        /\ Ok(c) => ConsumedErr(c) = 0 /\ AttemptsDone(c) = w /\ i[c] = w
        /\ Done(c) /\ ~Ok(c) =>
              ConsumedErr(c) = 1 /\ AttemptsDone(c) = i[c] + 1 /\ i[c] + 1 <= w
\* an attempt ends in exactly one of the three ways, and ends only by a step of
\* the loop: a step takes one temperature, one error or one timeout, never two,
\* and it is the step of a running loop that counts an attempt or returns
C13_OneEnding ==
    \A c \in Calls :
        LET dOk == IF Len(temps'[c]) < Len(temps[c]) THEN Len(temps[c]) - Len(temps'[c]) ELSE 0
            dErr == IF Len(errs'[c]) < Len(errs[c]) THEN Len(errs[c]) - Len(errs'[c]) ELSE 0
            dLog == logged'[c] - logged[c]
        IN  /\ {dOk, dErr, dLog} \subseteq {0, 1} /\ dOk + dErr + dLog <= 1
            /\ pc[c] = "select" /\ (i'[c] # i[c] \/ pc'[c] = "done") <=> dOk + dErr + dLog = 1
            /\ dErr = 1 => pc'[c] = "done" /\ i'[c] = i[c]
            /\ dOk + dLog = 1 => i'[c] = i[c] + 1
C13_AtMostNAttempts == [](C13_Bounded) /\ [][C13_OneEnding]_vars

C13_Witness ==
    /\ w = MaxAdapters /\ Done(1) /\ ~Ok(1) /\ i[1] = w - 1
    /\ ConsumedOk(1) >= 1 /\ logged[1] >= 1 /\ ConsumedErr(1) = 1

\* C14: the deadline is per attempt: every attempt starts with a new timer, an
\* attempt waits at most one deadline, and so a call has waited at most one
\* deadline per attempt made, N deadlines in all.
C14_Waits ==
    \A c \in Calls :
        /\ timer[c] <= Deadline
        /\ pc[c] = "select" => elapsed[c] <= i[c] * Deadline + timer[c]
        /\ elapsed[c] <= w * Deadline
C14_Restart ==
    \A c \in Calls :
        (pc'[c] = "select" /\ (pc[c] = "idle" \/ i'[c] = i[c] + 1)) => timer'[c] = 0
C14_PerAttemptDeadline == [](C14_Waits) /\ [][C14_Restart]_vars

\* a temperature answered more than one deadline into the call was received by
\* a later attempt, and the call waited longer than one deadline
C14_Witness ==
    /\ Ok(1) /\ temps[1] = <<>> /\ elapsed[1] > Deadline
    /\ \E a \in Adapters : late[1][a] /\ Published(1, a) /\ Succeeds(1, a)

\* the sets of providers whose published temperatures call c may have summed:
\* as many of them as temperatures have left temps
Summed(c) == {S \in SUBSET PublishedOk(c) : Cardinality(S) = ConsumedOk(c)}

\* C15: while the loop runs and when it has returned nil, sum is the float64 sum
\* of the temperatures of distinct providers that published one, each added
\* once, as many as were taken from temps; at a return of nil these and the
\* timeouts make N, and the result is that sum divided by N.
C15_Accounting ==
    \A c \in Calls :
        /\ pc[c] = "select" \/ Ok(c) => \E S \in Summed(c) : sum[c] \in Sums(c, S)
        /\ Ok(c) =>
              /\ ConsumedOk(c) + logged[c] = w
              /\ result[c].temp = FDiv(sum[c], w)

C15_Witness ==
    /\ Ok(1) /\ w = MaxAdapters /\ logged[1] = 1 /\ ConsumedOk(1) = w - 1
    /\ Cardinality(PublishedOk(1)) = w
    /\ result[1].temp # FDiv(sum[1], ConsumedOk(1))

\* C16 as stated: when a call returns nil, no temperature published before the
\* return is left in temps.
C16_Original ==
    [][\A c \in Calls : (Returns(c) /\ result'[c].err = Nil) => temps'[c] = <<>>]_vars

\* C16 amended: a call that has returned nil has left in temps at most as many
\* temperatures as attempts of it timed out; when none timed out, temps is
\* empty and every provider's temperature is in the sum.
C16_UnreadWithinTimeouts ==
    \A c \in Calls : Ok(c) =>
        /\ Len(temps[c]) <= logged[c]
        /\ logged[c] = 0 => temps[c] = <<>> /\ sum[c] \in Sums(c, Adapters)

C16_Witness ==
    /\ Ok(1) /\ w = MaxAdapters /\ logged[1] = 1 /\ Len(temps[1]) = 1
    /\ ConsumedOk(1) = w - 1 /\ elapsed[1] = Deadline
====
